---- MODULE Spec2Model ----
(***************************************************************************)
(* A model of dbcomp.py: the decoder of the .sbstore / .pset files of a    *)
(* safe browsing profile, the reader of the legacy sqlite store, and the   *)
(* comparison of the two.                                                  *)
(*                                                                         *)
(* Files are sequences of bytes.  A read position is the number of bytes   *)
(* already consumed.  The integers of the formats are decoded with         *)
(* struct's "=" formats, taken here on a little-endian host.  The script   *)
(* is Python 2 (print_function import, str + b2a_hex, integer division).   *)
(***************************************************************************)
EXTENDS Integers, Sequences, FiniteSets, TLC

VARIABLES
    arg,              \* the argument of the function call under study
    ret,              \* what the call returned, raised or printed
    new_profile_dir,  \* list name -> its .sbstore and .pset files
    old_profile_dir,  \* table name -> its rows of moz_classifier and moz_subs
    pc,               \* where main is
    files_left,       \* the .sbstore files os.listdir has yet to give
    sb_name,          \* parse_new_databases: the list being read
    sb_data,          \*   its SBData
    pset_prefixes,    \*   its prefixes (prefixes in the source)
    new_lists,        \* list name -> SBData, from the new profile
    tables_left,      \* the tables parse_old_database has yet to read
    old_lists,        \* table name -> SBData, from the old profile
    compare_left,     \* the tables compare_all_the_things has yet to compare
    compared,         \* table name -> what compare_table printed and returned
    failure,          \* compare_all_the_things: failure
    died,             \* the exception or exit(1) that ended the process, and where
    exit_code,        \* the exit code of the process, None while it runs
    next_id           \* the objects made so far

callvars == <<arg, ret>>

mainvars == <<new_profile_dir, old_profile_dir, pc, files_left, sb_name, sb_data,
              pset_prefixes, new_lists, tables_left, old_lists, compare_left, compared,
              failure, died, exit_code, next_id>>

vars == <<callvars, mainvars>>

(***************************************************************************)
(* Bounds of the model.                                                    *)
(***************************************************************************)
\* the longest slice, and the largest count, of a byte sliced array
MaxSlice == 2
\* the most add prefixes of a store
MaxRec == 2
\* the most bytes after the checksum of a store
MaxTrail == 2
\* the most indexes, and the most deltas, of a prefix set
MaxIndex == 2
MaxDelta == 2
\* the most add prefixes, and the most prefixes, handed to fill_addprefixes
MaxFill == 3
\* the largest prefix of the tables handed to compare_table
MaxPrefix == 3
\* the most lists of a profile directory
NumLists == 2

(***************************************************************************)
(* Results of a call that reads a stream: "ok" with a value and the new    *)
(* position, "raise" with the exception's name, or "exit" after the        *)
(* lines it printed.                                                       *)
(***************************************************************************)
Ok(val, pos) ==
    [st |-> "ok", val |-> val, pos |-> pos, exc |-> "", msg |-> <<>>, out |-> <<>>]

Raise(exc, pos) ==
    [st |-> "raise", val |-> <<>>, pos |-> pos, exc |-> exc, msg |-> <<>>, out |-> <<>>]

\* exit(1) after printing the lines msg, which hold the numbers out
Exit(msg, out, pos) ==
    [st |-> "exit", val |-> <<>>, pos |-> pos, exc |-> "SystemExit",
     msg |-> msg, out |-> out]

NoCall ==
    [st |-> "none", val |-> <<>>, pos |-> 0, exc |-> "", msg |-> <<>>, out |-> <<>>]

Min(a, b) == IF a <= b THEN a ELSE b

\* fp.read(n) at position pos: the next n bytes, fewer at the end of the file
FpRead(fp, pos, n) == SubSeq(fp, pos + 1, Min(pos + n, Len(fp)))

(***************************************************************************)
(* zlib.decompress.  The streams of the model's files are the ones zlib    *)
(* writes at level 0: the header 78 01, one final stored block (01, LEN,   *)
(* NLEN = ~LEN, the bytes) and the Adler-32 of the bytes, big-endian.      *)
(* Bytes after the end of the stream are ignored, as zlib.decompress does; *)
(* every other byte string of the model's files is no zlib stream.         *)
(***************************************************************************)
AdlerMod == 65521

RECURSIVE AdlerA(_)
AdlerA(data) ==
    IF data = <<>> THEN 1
    ELSE (AdlerA(SubSeq(data, 1, Len(data) - 1)) + data[Len(data)]) % AdlerMod

RECURSIVE AdlerB(_)
AdlerB(data) ==
    IF data = <<>> THEN 0
    ELSE (AdlerB(SubSeq(data, 1, Len(data) - 1)) + AdlerA(data)) % AdlerMod

Adler32(data) ==
    << AdlerB(data) \div 256, AdlerB(data) % 256,
       AdlerA(data) \div 256, AdlerA(data) % 256 >>

ZlibDecompress(z) ==
    IF /\ Len(z) >= 7
       /\ z[1] = 120 /\ z[2] = 1 /\ z[3] = 1
       /\ z[6] = 255 - z[4] /\ z[7] = 255 - z[5]
    THEN LET n == z[4] + 256 * z[5]
         IN  IF /\ Len(z) >= n + 11
                /\ SubSeq(z, n + 8, n + 11) = Adler32(SubSeq(z, 8, n + 7))
             THEN [ok |-> TRUE, data |-> SubSeq(z, 8, n + 7)]
             ELSE [ok |-> FALSE, data |-> <<>>]
    ELSE [ok |-> FALSE, data |-> <<>>]

\* the value of body for x = v, with v evaluated once: the statement
\* "x = v" followed by the statements of body
Bind(v, body(_)) == CHOOSE r \in { body(x) : x \in {v} } : TRUE

\* read_unzip: comp_size bytes of the stream, decompressed
ReadUnzip(fp, pos, comp_size) ==
    Bind(FpRead(fp, pos, comp_size), LAMBDA zlib_data :
    Bind(ZlibDecompress(zlib_data), LAMBDA uncomp :
        IF uncomp.ok
        THEN Ok(uncomp.data, pos + Len(zlib_data))
        ELSE Raise("zlib.error", pos + Len(zlib_data))))

\* read_raw: unpack_from needs size bytes and raises on fewer
ReadRaw(fp, pos, size) ==
    Bind(FpRead(fp, pos, size), LAMBDA data :
        IF Len(data) < size
        THEN Raise("struct.error", pos + Len(data))
        ELSE Ok(data, pos + size))

\* struct "=I" of four bytes
Uint32(b) == b[1] + 256 * b[2] + 65536 * b[3] + 16777216 * b[4]

\* struct "=H" of two bytes
Uint16(b) == b[1] + 256 * b[2]

\* readuint32: val is <<the integer>>
ReadUint32(fp, pos) ==
    Bind(FpRead(fp, pos, 4), LAMBDA data :
        IF Len(data) < 4
        THEN Raise("struct.error", pos + Len(data))
        ELSE Ok(<<Uint32(data)>>, pos + 4))

\* readuint16: val is <<the integer>>
ReadUint16(fp, pos) ==
    Bind(FpRead(fp, pos, 2), LAMBDA data :
        IF Len(data) < 2
        THEN Raise("struct.error", pos + Len(data))
        ELSE Ok(<<Uint16(data)>>, pos + 2))

\* a slice read as one that must hold a byte
ReadSliceNotEmpty(fp, pos) ==
    Bind(ReadUint32(fp, pos), LAMBDA comp_size :
        IF comp_size.st # "ok" THEN comp_size ELSE
    Bind(ReadUnzip(fp, comp_size.pos, comp_size.val[1]), LAMBDA slice :
        IF slice.st = "ok" /\ slice.val = <<>>
        THEN Raise("zlib.error", slice.pos) ELSE slice))

\* one length-prefixed compressed slice: readuint32, then read_unzip
ReadSlice(fp, pos) ==
    Bind(ReadUint32(fp, pos), LAMBDA comp_size :
        IF comp_size.st # "ok" THEN comp_size
        ELSE ReadUnzip(fp, comp_size.pos, comp_size.val[1]))

\* the reassembly of the four slices into count values
Reassemble(slice1, slice2, slice3, slice4, count) ==
    [i \in 1..count |->
        slice1[i] * 16777216 + slice2[i] * 65536 + slice3[i] * 256 + slice4[i]]

\* the test with the last comparison loosened: longer slices pass
SlicesShorter(l1, l2, l3, l4) == (l1 # l2) \/ (l2 # l3) \/ (l3 < l4)

\* the test that sends read_bytesliced to its "Slices inconsistent" exit
SlicesInconsistent(l1, l2, l3, l4) == (l1 # l2) \/ (l2 # l3) \/ (l3 # l4)

ReadBytesliced(fp, pos, count) ==
    Bind(ReadSlice(fp, pos), LAMBDA slice1 :
        IF slice1.st # "ok" THEN slice1 ELSE
    Bind(ReadSlice(fp, slice1.pos), LAMBDA slice2 :
        IF slice2.st # "ok" THEN slice2 ELSE
    Bind(ReadSlice(fp, slice2.pos), LAMBDA slice3 :
        IF slice3.st # "ok" THEN slice3 ELSE
    Bind(ReadRaw(fp, slice3.pos, count), LAMBDA slice4 :
        IF slice4.st # "ok" THEN slice4 ELSE
        IF SlicesInconsistent(Len(slice1.val), Len(slice2.val),
                              Len(slice3.val), Len(slice4.val))
        THEN Exit(<<"Slices inconsistent">>,
                  <<Len(slice1.val), Len(slice2.val),
                    Len(slice3.val), Len(slice4.val)>>, slice4.pos)
        ELSE Ok(Reassemble(slice1.val, slice2.val, slice3.val, slice4.val, count),
                slice4.pos)))))

(***************************************************************************)
(* SBHash and SBData.  SBHash defines neither __eq__ nor __hash__: two     *)
(* objects are equal, and hash alike, only if they are the same object.    *)
(* id is the object's identity; None is the value of an absent subchunk.   *)
(***************************************************************************)
None == -1

SBHash(id, prefix, addc, delc) ==
    [id |-> id, prefix |-> prefix, addchunk |-> addc, subchunk |-> delc]

SBData ==
    [name |-> "", addchunks |-> {}, subchunks |-> {},
     addprefixes |-> <<>>, subprefixes |-> <<>>,
     addcompletes |-> <<>>, subcompletes |-> <<>>]

Range(seq) == { seq[i] : i \in 1..Len(seq) }

\* n consecutive readuint32: val is the sequence of the integers
RECURSIVE ReadChunks(_, _, _)
ReadChunks(fp, pos, n) ==
    IF n = 0 THEN Ok(<<>>, pos) ELSE
    Bind(ReadUint32(fp, pos), LAMBDA chunk :
        IF chunk.st # "ok" THEN chunk ELSE
    Bind(ReadChunks(fp, chunk.pos, n - 1), LAMBDA rest :
        IF rest.st # "ok" THEN rest
        ELSE Ok(chunk.val \o rest.val, rest.pos)))

\* n add completes: 32 raw bytes and the add chunk; val is the SBHash sequence
RECURSIVE ReadAddCompletes(_, _, _, _)
ReadAddCompletes(fp, pos, n, id) ==
    IF n = 0 THEN Ok(<<>>, pos) ELSE
    Bind(ReadRaw(fp, pos, 32), LAMBDA complete :
        IF complete.st # "ok" THEN complete ELSE
    Bind(ReadUint32(fp, complete.pos), LAMBDA addchunk :
        IF addchunk.st # "ok" THEN addchunk ELSE
    Bind(ReadAddCompletes(fp, addchunk.pos, n - 1, id + 1), LAMBDA rest :
        IF rest.st # "ok" THEN rest
        ELSE Ok(<<SBHash(id, complete.val, addchunk.val[1], None)>> \o rest.val,
                rest.pos))))

\* n sub completes: 32 raw bytes, the add chunk and the sub chunk
RECURSIVE ReadSubCompletes(_, _, _, _)
ReadSubCompletes(fp, pos, n, id) ==
    IF n = 0 THEN Ok(<<>>, pos) ELSE
    Bind(ReadRaw(fp, pos, 32), LAMBDA complete :
        IF complete.st # "ok" THEN complete ELSE
    Bind(ReadUint32(fp, complete.pos), LAMBDA addchunk :
        IF addchunk.st # "ok" THEN addchunk ELSE
    Bind(ReadUint32(fp, addchunk.pos), LAMBDA subchunk :
        IF subchunk.st # "ok" THEN subchunk ELSE
    Bind(ReadSubCompletes(fp, subchunk.pos, n - 1, id + 1), LAMBDA rest :
        IF rest.st # "ok" THEN rest
        ELSE Ok(<<SBHash(id, complete.val, addchunk.val[1], subchunk.val[1])>>
                \o rest.val, rest.pos)))))

\* the size of the store's header, struct "=IIIIIIII"
HeaderSize == 32

\* the size of the MD5 that ends a store
Md5Size == 16

\* the position with the dummy read counted in
OurposWithDummy(tell, dummy) == tell

\* the position read_sbstore takes as its own: before the dummy read
Ourpos(tell, dummy) == tell - Len(dummy)

\* the end of read_sbstore: the checksum, then the EOF detection
ReadTrailer(fp, pos, data) ==
    Bind(FpRead(fp, pos, Md5Size), LAMBDA md5sum :
    Bind(FpRead(fp, pos + Len(md5sum), 1), LAMBDA dummy :
        IF Len(dummy) # 0 \/ Len(md5sum) # Md5Size
        THEN Exit((IF Len(md5sum) # Md5Size THEN <<"Checksum truncated">> ELSE <<>>)
                  \o <<"File doesn't end where expected: bytes remaining">>,
                  <<Len(fp) - Ourpos(pos + Len(md5sum) + Len(dummy), dummy)>>,
                  Len(fp))
        ELSE Ok(<<data>>, pos + Len(md5sum) + Len(dummy))))

\* the objects of read_sbstore: add prefixes with prefix 0 and the sub prefixes
PrefixObjects(id, addprefix_addchunk, subprefix_subchunk, subprefix_addchunk, subprefixes) ==
    [addprefixes |-> [i \in 1..Len(addprefix_addchunk) |->
         SBHash(id + i, 0, addprefix_addchunk[i], None)],
     subprefixes |-> [i \in 1..Len(subprefixes) |->
         SBHash(id + Len(addprefix_addchunk) + i, subprefixes[i],
                subprefix_addchunk[i], subprefix_subchunk[i])]]

\* read_sbstore: val is <<the SBData>>; the objects it makes are id+1, id+2, ...
ReadSbstore(fp, id) ==
    Bind(FpRead(fp, 0, HeaderSize), LAMBDA header :
        IF Len(header) < HeaderSize THEN Raise("struct.error", Len(header)) ELSE
    Bind([num_add_chunk    |-> Uint32(SubSeq(header, 9, 12)),
          num_sub_chunk    |-> Uint32(SubSeq(header, 13, 16)),
          num_add_prefix   |-> Uint32(SubSeq(header, 17, 20)),
          num_sub_prefix   |-> Uint32(SubSeq(header, 21, 24)),
          num_add_complete |-> Uint32(SubSeq(header, 25, 28)),
          num_sub_complete |-> Uint32(SubSeq(header, 29, 32))], LAMBDA h :
    Bind(ReadChunks(fp, HeaderSize, h.num_add_chunk), LAMBDA addchunks :
        IF addchunks.st # "ok" THEN addchunks ELSE
    Bind(ReadChunks(fp, addchunks.pos, h.num_sub_chunk), LAMBDA subchunks :
        IF subchunks.st # "ok" THEN subchunks ELSE
    Bind(ReadBytesliced(fp, subchunks.pos, h.num_add_prefix), LAMBDA addprefix_addchunk :
        IF addprefix_addchunk.st # "ok" THEN addprefix_addchunk ELSE
    Bind(ReadBytesliced(fp, addprefix_addchunk.pos, h.num_sub_prefix), LAMBDA subprefix_subchunk :
        IF subprefix_subchunk.st # "ok" THEN subprefix_subchunk ELSE
    Bind(ReadBytesliced(fp, subprefix_subchunk.pos, h.num_sub_prefix), LAMBDA subprefix_addchunk :
        IF subprefix_addchunk.st # "ok" THEN subprefix_addchunk ELSE
    Bind(ReadBytesliced(fp, subprefix_addchunk.pos, h.num_sub_prefix), LAMBDA subprefixes :
        IF subprefixes.st # "ok" THEN subprefixes ELSE
    Bind(PrefixObjects(id, addprefix_addchunk.val, subprefix_subchunk.val,
                       subprefix_addchunk.val, subprefixes.val), LAMBDA prefix :
    Bind(ReadAddCompletes(fp, subprefixes.pos, h.num_add_complete,
                          id + h.num_add_prefix + h.num_sub_prefix + 1), LAMBDA addcompletes :
        IF addcompletes.st # "ok" THEN addcompletes ELSE
    Bind(ReadSubCompletes(fp, addcompletes.pos, h.num_sub_complete,
                          id + h.num_add_prefix + h.num_sub_prefix
                          + h.num_add_complete + 1), LAMBDA subcompletes :
        IF subcompletes.st # "ok" THEN subcompletes ELSE
        ReadTrailer(fp, subcompletes.pos,
            [name |-> "",
             addchunks |-> Range(addchunks.val),
             subchunks |-> Range(subchunks.val),
             addprefixes |-> prefix.addprefixes,
             subprefixes |-> prefix.subprefixes,
             addcompletes |-> addcompletes.val,
             subcompletes |-> subcompletes.val]))))))))))))

\* the number of SBHash objects of an SBData
NumObjects(data) ==
    Len(data.addprefixes) + Len(data.subprefixes)
    + Len(data.addcompletes) + Len(data.subcompletes)

(***************************************************************************)
(* The prefix set.                                                         *)
(***************************************************************************)
\* the inner loop of pset_to_prefixes: for j in range(j, end), from prefix;
\* index_deltas[j] raises IndexError past the end of the list
RECURSIVE DeltaRun(_, _, _, _)
DeltaRun(prefix, j, end, index_deltas) ==
    IF j >= end THEN Ok(<<>>, 0)
    ELSE IF j >= Len(index_deltas) THEN Raise("IndexError", 0)
    ELSE Bind(prefix + index_deltas[j + 1], LAMBDA next :
         Bind(DeltaRun(next, j + 1, end, index_deltas), LAMBDA rest :
             IF rest.st # "ok" THEN rest ELSE Ok(<<next>> \o rest.val, 0)))

\* the end of the deltas of every index taken as the end of the list
DeltaEndOfList(i, index_starts, index_deltas) == Len(index_deltas)

\* the end of the deltas of index i (0-based)
DeltaEnd(i, index_starts, index_deltas) ==
    IF i # Len(index_starts) - 1 THEN index_starts[i + 2] ELSE Len(index_deltas)

\* the outer loop of pset_to_prefixes, from index i (0-based)
RECURSIVE PsetFrom(_, _, _, _)
PsetFrom(i, index_prefixes, index_starts, index_deltas) ==
    IF i >= Len(index_prefixes) THEN Ok(<<>>, 0) ELSE
    Bind(DeltaRun(index_prefixes[i + 1], index_starts[i + 1],
                  DeltaEnd(i, index_starts, index_deltas), index_deltas), LAMBDA run :
        IF run.st # "ok" THEN run ELSE
    Bind(PsetFrom(i + 1, index_prefixes, index_starts, index_deltas), LAMBDA rest :
        IF rest.st # "ok" THEN rest
        ELSE Ok(<<index_prefixes[i + 1]>> \o run.val \o rest.val, 0)))

PsetToPrefixes(index_prefixes, index_starts, index_deltas) ==
    PsetFrom(0, index_prefixes, index_starts, index_deltas)

\* "empty set has a special form"
EmptySetForm(prefixes) ==
    IF Len(prefixes) # 0 /\ prefixes[1] = 0 THEN <<>> ELSE prefixes

\* n consecutive readuint16: val is the sequence of the integers
RECURSIVE ReadDeltas(_, _, _)
ReadDeltas(fp, pos, n) ==
    IF n = 0 THEN Ok(<<>>, pos) ELSE
    Bind(ReadUint16(fp, pos), LAMBDA delta :
        IF delta.st # "ok" THEN delta ELSE
    Bind(ReadDeltas(fp, delta.pos, n - 1), LAMBDA rest :
        IF rest.st # "ok" THEN rest
        ELSE Ok(delta.val \o rest.val, rest.pos)))

\* read_pset: val is the sequence of prefixes
ReadPset(fp) ==
    Bind(ReadUint32(fp, 0), LAMBDA version :
        IF version.st # "ok" THEN version ELSE
    Bind(ReadUint32(fp, version.pos), LAMBDA indexsize :
        IF indexsize.st # "ok" THEN indexsize ELSE
    Bind(ReadUint32(fp, indexsize.pos), LAMBDA deltasize :
        IF deltasize.st # "ok" THEN deltasize ELSE
    Bind(ReadChunks(fp, deltasize.pos, indexsize.val[1]), LAMBDA index_prefixes :
        IF index_prefixes.st # "ok" THEN index_prefixes ELSE
    Bind(ReadChunks(fp, index_prefixes.pos, indexsize.val[1]), LAMBDA index_starts :
        IF index_starts.st # "ok" THEN index_starts ELSE
    Bind(ReadDeltas(fp, index_starts.pos, deltasize.val[1]), LAMBDA index_deltas :
        IF index_deltas.st # "ok" THEN index_deltas ELSE
    Bind(PsetToPrefixes(index_prefixes.val, index_starts.val, index_deltas.val),
         LAMBDA prefixes :
        IF prefixes.st # "ok" THEN Raise(prefixes.exc, index_deltas.pos)
        ELSE Ok(EmptySetForm(prefixes.val), index_deltas.pos))))))))

(***************************************************************************)
(* SBData.fill_addprefixes and SBData.sort_all_data.                       *)
(***************************************************************************)
\* the assignment loop of fill_addprefixes
AssignPrefixes(addprefixes, prefixes) ==
    [i \in 1..Len(addprefixes) |-> [addprefixes[i] EXCEPT !.prefix = prefixes[i]]]

\* fill_addprefixes without its assert: the loop alone, which raises IndexError
\* at the first add prefix past the end of prefixes, the earlier ones assigned
FillUnchecked(data, prefixes) ==
    LET n == Min(Len(prefixes), Len(data.addprefixes))
        assigned == [i \in 1..Len(data.addprefixes) |->
                        IF i <= n THEN [data.addprefixes[i] EXCEPT !.prefix = prefixes[i]]
                        ELSE data.addprefixes[i]]
    IN  [st |-> IF Len(prefixes) < Len(data.addprefixes) THEN "raise" ELSE "ok",
         val |-> <<[data EXCEPT !.addprefixes = assigned]>>, pos |-> 0,
         exc |-> IF Len(prefixes) < Len(data.addprefixes) THEN "IndexError" ELSE "",
         msg |-> <<>>, out |-> <<>>]

\* fill_addprefixes: val is <<the SBData after the call>>, which a failed assert
\* leaves as it was
FillAddprefixes(data, prefixes) ==
    IF Len(prefixes) # Len(data.addprefixes)
    THEN [Raise("AssertionError", 0) EXCEPT !.val = <<data>>]
    ELSE Ok(<<[data EXCEPT !.addprefixes = AssignPrefixes(data.addprefixes, prefixes)]>>, 0)

\* the order of Python's tuples, on keys of one length
KeyLess(a, b) ==
    \E i \in 1..Len(a) : a[i] < b[i] /\ \A j \in 1..(i - 1) : a[j] = b[j]

\* attrgetter('prefix', 'addchunk') and ('prefix', 'subchunk', 'addchunk') of a
\* prefix, and the same of a complete, whose prefix is a tuple of 32 bytes
AddPrefixKey(h) == <<h.prefix, h.addchunk>>

SubPrefixKey(h) == <<h.prefix, h.subchunk, h.addchunk>>

AddCompleteKey(h) == h.prefix \o <<h.addchunk>>

SubCompleteKey(h) == h.prefix \o <<h.subchunk, h.addchunk>>

\* list.sort(key=...) of items whose keys are keys: the place of item i is
\* after the items of a smaller key and, the sort being stable, after the
\* earlier items of an equal key
SortPlace(keys, i) ==
    1 + Cardinality({ j \in 1..Len(keys) :
                        KeyLess(keys[j], keys[i]) \/ (keys[j] = keys[i] /\ j < i) })

ListSort(items, keys) ==
    [p \in 1..Len(items) |->
        items[CHOOSE i \in 1..Len(items) : SortPlace(keys, i) = p]]

SortAllData(data) ==
    [data EXCEPT
        !.addprefixes = ListSort(@, [i \in 1..Len(@) |-> AddPrefixKey(@[i])]),
        !.subprefixes = ListSort(@, [i \in 1..Len(@) |-> SubPrefixKey(@[i])]),
        !.addcompletes = ListSort(@, [i \in 1..Len(@) |-> AddCompleteKey(@[i])]),
        !.subcompletes = ListSort(@, [i \in 1..Len(@) |-> SubCompleteKey(@[i])])]

(***************************************************************************)
(* compare_table.                                                          *)
(***************************************************************************)
\* what a Python set tells its members apart by: SBHash has the default
\* __hash__ and __eq__ of an object, its identity
SetKey(h) == h.id

\* the set built by adding each element of a list
PySet(list) == { SetKey(list[i]) : i \in 1..Len(list) }

SymmetricDifference(a, b) == (a \ b) \cup (b \ a)

\* compare_table: the two counts it prints, then the percentage, whose
\* division raises ZeroDivisionError on a total of zero, then its result
CompareTable(old_table, new_table) ==
    LET old_addprefixes == PySet(old_table.addprefixes)
        new_addprefixes == PySet(new_table.addprefixes)
        add_mismatches  == Cardinality(SymmetricDifference(old_addprefixes, new_addprefixes))
        old_subprefixes == PySet(old_table.subprefixes)
        new_subprefixes == PySet(new_table.subprefixes)
        sub_mismatches  == Cardinality(SymmetricDifference(old_subprefixes, new_subprefixes))
        total_prefixes  == Cardinality(old_addprefixes) + Cardinality(old_subprefixes)
        failed_prefixes == add_mismatches + sub_mismatches
    IN  [st |-> IF total_prefixes = 0 THEN "raise" ELSE "ok",
         exc |-> IF total_prefixes = 0 THEN "ZeroDivisionError" ELSE "",
         add_mismatches |-> add_mismatches,
         sub_mismatches |-> sub_mismatches,
         total_prefixes |-> total_prefixes,
         correct |-> IF total_prefixes = 0 THEN 0
                     ELSE ((total_prefixes - failed_prefixes) * 100) \div total_prefixes,
         failed |-> total_prefixes # 0 /\ failed_prefixes # 0]

(***************************************************************************)
(* The writer's side of the formats, to build the files the model reads.   *)
(***************************************************************************)
Bytes32(n) == << n % 256, (n \div 256) % 256, (n \div 65536) % 256, n \div 16777216 >>

Bytes16(n) == << n % 256, n \div 256 >>

ZlibStored(data) ==
    << 120, 1, 1, Len(data) % 256, Len(data) \div 256,
       255 - (Len(data) % 256), 255 - (Len(data) \div 256) >>
    \o data \o Adler32(data)

SliceBlock(data) == Bytes32(Len(ZlibStored(data))) \o ZlibStored(data)

\* byte k (1 = most significant) of each value of a sequence
SliceOf(values, k) ==
    [i \in 1..Len(values) |->
        CASE k = 1 -> values[i] \div 16777216
          [] k = 2 -> (values[i] \div 65536) % 256
          [] k = 3 -> (values[i] \div 256) % 256
          [] OTHER -> values[i] % 256]

ByteSliced(values) ==
    SliceBlock(SliceOf(values, 1)) \o SliceBlock(SliceOf(values, 2))
    \o SliceBlock(SliceOf(values, 3)) \o SliceOf(values, 4)

RECURSIVE Concat(_)
Concat(seqs) == IF seqs = <<>> THEN <<>> ELSE Head(seqs) \o Concat(Tail(seqs))

\* the header of a store: magic, version and the six counts
StoreHeader(nac, nsc, nap, nsp, nacomp, nscomp) ==
    <<59, 175, 49, 18>> \o Bytes32(1) \o Bytes32(nac) \o Bytes32(nsc)
    \o Bytes32(nap) \o Bytes32(nsp) \o Bytes32(nacomp) \o Bytes32(nscomp)

\* the sections of a store up to its checksum; content names what it holds:
\* the chunks, the add chunk of each add prefix, the sub prefixes and completes
StoreSections(content) ==
    Concat([i \in 1..Len(content.addchunks) |-> Bytes32(content.addchunks[i])])
    \o Concat([i \in 1..Len(content.subchunks) |-> Bytes32(content.subchunks[i])])
    \o ByteSliced(content.addprefixes)
    \o ByteSliced([i \in 1..Len(content.subprefixes) |-> content.subprefixes[i].subchunk])
    \o ByteSliced([i \in 1..Len(content.subprefixes) |-> content.subprefixes[i].addchunk])
    \o ByteSliced([i \in 1..Len(content.subprefixes) |-> content.subprefixes[i].prefix])
    \o Concat([i \in 1..Len(content.addcompletes) |->
           content.addcompletes[i].prefix \o Bytes32(content.addcompletes[i].addchunk)])
    \o Concat([i \in 1..Len(content.subcompletes) |->
           content.subcompletes[i].prefix \o Bytes32(content.subcompletes[i].addchunk)
           \o Bytes32(content.subcompletes[i].subchunk)])

StoreBody(content) ==
    StoreHeader(Len(content.addchunks), Len(content.subchunks),
                Len(content.addprefixes), Len(content.subprefixes),
                Len(content.addcompletes), Len(content.subcompletes))
    \o StoreSections(content)

\* n bytes b: a checksum, whole or cut short, and what follows it
Fill(n, b) == [i \in 1..n |-> b]

\* a prefix set file: version, the two counts, the three arrays
PsetFile(index_prefixes, index_starts, index_deltas) ==
    Bytes32(1) \o Bytes32(Len(index_prefixes)) \o Bytes32(Len(index_deltas))
    \o Concat([i \in 1..Len(index_prefixes) |-> Bytes32(index_prefixes[i])])
    \o Concat([i \in 1..Len(index_starts) |-> Bytes32(index_starts[i])])
    \o Concat([i \in 1..Len(index_deltas) |-> Bytes16(index_deltas[i])])

SeqsUpTo(S, n) == UNION { [1..k -> S] : k \in 0..n }

(***************************************************************************)
(* parse_old_database: the rows of a table, as sqlite gives them.  domain  *)
(* and partial_data are blobs of 4 bytes, partial_data may be empty.       *)
(***************************************************************************)
\* the prefix of a row: partial_data, or domain when there is none
RowPrefix(row) ==
    IF row.partial_data = <<>> THEN Uint32(row.domain) ELSE Uint32(row.partial_data)

\* the SBData of one table, its objects id+1, id+2, ..., sorted
ParseOldTable(table_name, table, id) ==
    SortAllData(
        [SBData EXCEPT
            !.name = table_name,
            !.addchunks = { table.adds[i].chunk_id : i \in 1..Len(table.adds) },
            !.subchunks = { table.subs[i].chunk_id : i \in 1..Len(table.subs) },
            !.addprefixes = [i \in 1..Len(table.adds) |->
                SBHash(id + i, RowPrefix(table.adds[i]), table.adds[i].chunk_id, None)],
            !.subprefixes = [i \in 1..Len(table.subs) |->
                SBHash(id + Len(table.adds) + i, RowPrefix(table.subs[i]),
                       table.subs[i].add_chunk_id, table.subs[i].chunk_id)]])

(***************************************************************************)
(* main: parse_new_databases, parse_old_database, compare_all_the_things,  *)
(* exit.  os.listdir and the dict of tables give their names in any order. *)
(***************************************************************************)
NotDied == [st |-> "none", exc |-> "", msg |-> <<>>, out |-> <<>>, at |-> ""]

\* an uncaught exception, or exit(1): the process ends with exit code 1
Die(r) ==
    /\ died' = [st |-> r.st, exc |-> r.exc, msg |-> r.msg, out |-> r.out, at |-> pc]
    /\ exit_code' = 1
    /\ pc' = "exited"

\* for file in os.listdir(dir): sb_data = read_sbstore(sb_file)
ReadSbstoreStep ==
    /\ pc = "parse_new"
    /\ \E file \in files_left :
        LET r == ReadSbstore(new_profile_dir[file].sbstore, next_id)
        IN  /\ files_left' = files_left \ {file}
            /\ sb_name' = file
            /\ IF r.st = "ok"
               THEN /\ sb_data' = r.val[1]
                    /\ next_id' = next_id + NumObjects(r.val[1])
                    /\ pc' = "read_pset"
                    /\ UNCHANGED <<died, exit_code>>
               ELSE /\ Die(r)
                    /\ UNCHANGED <<sb_data, next_id>>
    /\ UNCHANGED <<callvars, new_profile_dir, old_profile_dir, pset_prefixes, new_lists,
                   tables_left, old_lists, compare_left, compared, failure>>

\* prefixes = read_pset(...)
ReadPsetStep ==
    /\ pc = "read_pset"
    /\ LET r == ReadPset(new_profile_dir[sb_name].pset)
       IN  IF r.st = "ok"
           THEN /\ pset_prefixes' = r.val
                /\ pc' = "fill"
                /\ UNCHANGED <<died, exit_code>>
           ELSE /\ Die(r)
                /\ UNCHANGED pset_prefixes
    /\ UNCHANGED <<callvars, new_profile_dir, old_profile_dir, files_left, sb_name,
                   sb_data, new_lists, tables_left, old_lists, compare_left,
                   compared, failure, next_id>>

\* sb_data.name = sb_name; sb_data.fill_addprefixes(prefixes)
FillStep ==
    /\ pc = "fill"
    /\ LET r == FillAddprefixes([sb_data EXCEPT !.name = sb_name], pset_prefixes)
       IN  /\ sb_data' = r.val[1]
           /\ IF r.st = "ok"
              THEN pc' = "sort" /\ UNCHANGED <<died, exit_code>>
              ELSE Die(r)
    /\ UNCHANGED <<callvars, new_profile_dir, old_profile_dir, files_left, sb_name,
                   pset_prefixes, new_lists, tables_left, old_lists, compare_left,
                   compared, failure, next_id>>

\* sb_data.sort_all_data(); sb_lists[sb_name] = sb_data
SortStep ==
    /\ pc = "sort"
    /\ sb_data' = SortAllData(sb_data)
    /\ new_lists' = [n \in DOMAIN new_lists \cup {sb_name} |->
                        IF n = sb_name THEN sb_data' ELSE new_lists[n]]
    /\ pc' = "parse_new"
    /\ UNCHANGED <<callvars, new_profile_dir, old_profile_dir, files_left, sb_name,
                   pset_prefixes, tables_left, old_lists, compare_left, compared,
                   failure, died, exit_code, next_id>>

\* parse_new_databases returns; parse_old_database reads moz_tables
ParseNewReturn ==
    /\ pc = "parse_new"
    /\ files_left = {}
    /\ pc' = "parse_old"
    /\ tables_left' = DOMAIN old_profile_dir
    /\ UNCHANGED <<callvars, new_profile_dir, old_profile_dir, files_left, sb_name,
                   sb_data, pset_prefixes, new_lists, old_lists, compare_left, compared,
                   failure, died, exit_code, next_id>>

\* for table_name in sb_names.keys(): the rows of the table, sort_all_data
ParseOldTableStep ==
    /\ pc = "parse_old"
    /\ \E table_name \in tables_left :
        LET data == ParseOldTable(table_name, old_profile_dir[table_name], next_id)
        IN  /\ tables_left' = tables_left \ {table_name}
            /\ old_lists' = [n \in DOMAIN old_lists \cup {table_name} |->
                                IF n = table_name THEN data ELSE old_lists[n]]
            /\ next_id' = next_id + NumObjects(data)
    /\ UNCHANGED <<callvars, new_profile_dir, old_profile_dir, pc, files_left,
                   sb_name, sb_data, pset_prefixes, new_lists, compare_left, compared,
                   failure, died, exit_code>>

\* parse_old_database returns; compare_all_the_things sets failure = False
ParseOldReturn ==
    /\ pc = "parse_old"
    /\ tables_left = {}
    /\ pc' = "compare"
    /\ compare_left' = DOMAIN old_lists
    /\ failure' = FALSE
    /\ UNCHANGED <<callvars, new_profile_dir, old_profile_dir, files_left, sb_name,
                   sb_data, pset_prefixes, new_lists, tables_left, old_lists, compared,
                   died, exit_code, next_id>>

\* for table in old_lists: new_lists[table] raises KeyError for a table the new
\* profile lacks; failure |= compare_table(old_data, new_data)
CompareStep ==
    /\ pc = "compare"
    /\ \E table \in compare_left :
        /\ compare_left' = compare_left \ {table}
        /\ IF table \notin DOMAIN new_lists
           THEN /\ Die(Raise("KeyError", 0))
                /\ UNCHANGED <<compared, failure>>
           ELSE LET r == CompareTable(old_lists[table], new_lists[table])
                IN  /\ compared' = [n \in DOMAIN compared \cup {table} |->
                                       IF n = table THEN r ELSE compared[n]]
                    /\ IF r.st = "ok"
                       THEN /\ failure' = (failure \/ r.failed)
                            /\ UNCHANGED <<pc, died, exit_code>>
                       ELSE /\ Die(Raise(r.exc, 0))
                            /\ UNCHANGED failure
    /\ UNCHANGED <<callvars, new_profile_dir, old_profile_dir, files_left, sb_name,
                   sb_data, pset_prefixes, new_lists, tables_left, old_lists, next_id>>

\* compare_all_the_things returns failure; main exits with 1 or 0
MainExit ==
    /\ pc = "compare"
    /\ compare_left = {}
    /\ exit_code' = IF failure THEN 1 ELSE 0
    /\ pc' = "exited"
    /\ UNCHANGED <<callvars, new_profile_dir, old_profile_dir, files_left, sb_name,
                   sb_data, pset_prefixes, new_lists, tables_left, old_lists,
                   compare_left, compared, failure, died, next_id>>

Next ==
    \/ ReadSbstoreStep
    \/ ReadPsetStep
    \/ FillStep
    \/ SortStep
    \/ ParseNewReturn
    \/ ParseOldTableStep
    \/ ParseOldReturn
    \/ CompareStep
    \/ MainExit

\* the state of main at its start, over the two profile directories
MainStart(new_dir, old_dir) ==
    /\ new_profile_dir = new_dir
    /\ old_profile_dir = old_dir
    /\ pc = "parse_new"
    /\ files_left = DOMAIN new_dir
    /\ sb_name = ""
    /\ sb_data = SBData
    /\ pset_prefixes = <<>>
    /\ new_lists = [n \in {} |-> SBData]
    /\ tables_left = {}
    /\ old_lists = [n \in {} |-> SBData]
    /\ compare_left = {}
    /\ compared = [n \in {} |-> 0]
    /\ failure = FALSE
    /\ died = NotDied
    /\ exit_code = None
    /\ next_id = 0

\* main is not run: a function is called on its own
MainIdle ==
    MainStart([n \in {} |-> 0], [n \in {} |-> 0])

(***************************************************************************)
(* read_bytesliced on its own: a stream of three compressed slices and     *)
(* some raw bytes, each of its own length, read with a count.              *)
(***************************************************************************)
\* the bytes of a slice: slice k holds k, k+10, k+20, ...
SliceData(k, n) == [i \in 1..n |-> k + 10 * (i - 1)]

SlicedArgs ==
    { [op |-> "read_bytesliced", count |-> c, lens |-> <<l1, l2, l3, l4>>,
       fp |-> SliceBlock(SliceData(1, l1)) \o SliceBlock(SliceData(2, l2))
              \o SliceBlock(SliceData(3, l3)) \o SliceData(4, l4)] :
      c \in 0..MaxSlice, l1 \in 0..MaxSlice, l2 \in 0..MaxSlice,
      l3 \in 0..MaxSlice, l4 \in 0..MaxSlice }

InitSliced ==
    /\ MainIdle
    /\ arg \in SlicedArgs
    /\ ret = NoCall

CallReadBytesliced ==
    /\ arg.op = "read_bytesliced"
    /\ ret = NoCall
    /\ ret' = ReadBytesliced(arg.fp, 0, arg.count)
    /\ UNCHANGED <<arg, mainvars>>

SpecSliced == InitSliced /\ [][CallReadBytesliced]_vars

(***************************************************************************)
(* read_sbstore on its own: a store with a few records of each kind, then  *)
(* some bytes where its checksum belongs; or the bare header of an empty   *)
(* store and those bytes.                                                  *)
(***************************************************************************)
\* a 32-byte hash
Complete(k) == [j \in 1..32 |-> j + k]

StoreContent(nac, nsc, nap, nsp, nacomp, nscomp) ==
    [addchunks |-> [i \in 1..nac |-> 10 * i],
     subchunks |-> [i \in 1..nsc |-> 5 * i],
     addprefixes |-> [i \in 1..nap |-> 66051 * i],
     subprefixes |-> [i \in 1..nsp |->
         [prefix |-> 16909060 * i, addchunk |-> 10 * i, subchunk |-> 5 * i]],
     addcompletes |-> [i \in 1..nacomp |->
         [prefix |-> Complete(i), addchunk |-> 10 * i]],
     subcompletes |-> [i \in 1..nscomp |->
         [prefix |-> Complete(40 + i), addchunk |-> 10 * i, subchunk |-> 5 * i]]]

StoreContents ==
    { StoreContent(nac, nsc, nap, nsp, nacomp, nscomp) :
      nac \in 0..1, nsc \in 0..1, nap \in 0..MaxRec, nsp \in 0..1,
      nacomp \in 0..1, nscomp \in 0..1 }

EmptyContent == StoreContent(0, 0, 0, 0, 0, 0)

StoreArgs ==
    { [op |-> "read_sbstore", layout |-> "sections", content |-> c,
       sections_end |-> Len(StoreBody(c)),
       fp |-> StoreBody(c) \o Fill(t, 7)] :
      c \in StoreContents, t \in 0..(Md5Size + MaxTrail) }
    \cup
    { [op |-> "read_sbstore", layout |-> "header only", content |-> EmptyContent,
       sections_end |-> HeaderSize,
       fp |-> StoreHeader(0, 0, 0, 0, 0, 0) \o Fill(t, b)] :
      t \in 0..(Md5Size + MaxTrail), b \in {0, 7} }

InitStore ==
    /\ MainIdle
    /\ arg \in StoreArgs
    /\ ret = NoCall

CallReadSbstore ==
    /\ arg.op = "read_sbstore"
    /\ ret = NoCall
    /\ ret' = ReadSbstore(arg.fp, 0)
    /\ UNCHANGED <<arg, mainvars>>

SpecStore == InitStore /\ [][CallReadSbstore]_vars

(***************************************************************************)
(* read_pset on its own: a prefix set file of any index prefixes, index    *)
(* starts (also past the deltas) and deltas.                               *)
(***************************************************************************)
PsetArgs ==
    { [op |-> "read_pset", index_prefixes |-> ip, index_starts |-> is,
       index_deltas |-> d, fp |-> PsetFile(ip, is, d)] :
      <<ip, is>> \in UNION { [1..n -> {0, 5, 300}] \X [1..n -> 0..(MaxDelta + 1)] :
                            n \in 0..MaxIndex },
      d \in SeqsUpTo({2, 3}, MaxDelta) }

InitPset ==
    /\ MainIdle
    /\ arg \in PsetArgs
    /\ ret = NoCall

CallReadPset ==
    /\ arg.op = "read_pset"
    /\ ret = NoCall
    /\ ret' = ReadPset(arg.fp)
    /\ UNCHANGED <<arg, mainvars>>

SpecPset == InitPset /\ [][CallReadPset]_vars

(***************************************************************************)
(* fill_addprefixes on its own: an SBData as read_sbstore returns it, its  *)
(* add prefixes 0, and a sequence of prefixes of any length.               *)
(***************************************************************************)
FillArgs ==
    { [op |-> "fill_addprefixes",
       data |-> [SBData EXCEPT !.addprefixes =
                    [i \in 1..Len(chunks) |-> SBHash(i, 0, chunks[i], None)]],
       prefixes |-> prefixes] :
      chunks \in SeqsUpTo({10, 20}, MaxFill),
      prefixes \in SeqsUpTo({4, 2}, MaxFill) }

InitFill ==
    /\ MainIdle
    /\ arg \in FillArgs
    /\ ret = NoCall

CallFillAddprefixes ==
    /\ arg.op = "fill_addprefixes"
    /\ ret = NoCall
    /\ ret' = FillAddprefixes(arg.data, arg.prefixes)
    /\ UNCHANGED <<arg, mainvars>>

SpecFill == InitFill /\ [][CallFillAddprefixes]_vars

(***************************************************************************)
(* compare_table on its own: two tables as the parsers leave them, sorted, *)
(* every record an object of its own.                                      *)
(***************************************************************************)
\* the add prefixes and sub prefixes tables are drawn from, in sorted order
AddUniverse ==
    [k \in 1..(2 * MaxPrefix) |->
        [prefix |-> (k + 1) \div 2, addchunk |-> IF k % 2 = 1 THEN 10 ELSE 20]]

SubUniverse == << [prefix |-> 7, addchunk |-> 10, subchunk |-> 5] >>

\* the table holding the records adds and subs of the universes, as objects
\* id+1, id+2, ...
TableOf(adds, subs, id) ==
    LET a == SelectSeq([k \in 1..Len(AddUniverse) |-> k], LAMBDA k : k \in adds)
        b == SelectSeq([k \in 1..Len(SubUniverse) |-> k], LAMBDA k : k \in subs)
    IN  [SBData EXCEPT
            !.name = "t",
            !.addchunks = { AddUniverse[k].addchunk : k \in adds },
            !.subchunks = { SubUniverse[k].subchunk : k \in subs },
            !.addprefixes = [i \in 1..Len(a) |->
                SBHash(id + i, AddUniverse[a[i]].prefix, AddUniverse[a[i]].addchunk, None)],
            !.subprefixes = [i \in 1..Len(b) |->
                SBHash(id + Len(a) + i, SubUniverse[b[i]].prefix,
                       SubUniverse[b[i]].addchunk, SubUniverse[b[i]].subchunk)]]

CompareArgs ==
    { [op |-> "compare_table",
       new_table |-> TableOf(na, ns, 0),
       old_table |-> TableOf(oa, os, Cardinality(na) + Cardinality(ns))] :
      na \in SUBSET (1..Len(AddUniverse)), ns \in SUBSET (1..Len(SubUniverse)),
      oa \in SUBSET (1..Len(AddUniverse)), os \in SUBSET (1..Len(SubUniverse)) }

InitCompare ==
    /\ MainIdle
    /\ arg \in CompareArgs
    /\ ret = NoCall

CallCompareTable ==
    /\ arg.op = "compare_table"
    /\ ret = NoCall
    /\ ret' = CompareTable(arg.old_table, arg.new_table)
    /\ UNCHANGED <<arg, mainvars>>

SpecCompare == InitCompare /\ [][CallCompareTable]_vars

(***************************************************************************)
(* main, on two profile directories of up to NumLists lists each.          *)
(***************************************************************************)
ListNames == { <<"a", "b", "c", "d">>[i] : i \in 1..NumLists }

OneAdd == [StoreContent(0, 0, 0, 0, 0, 0) EXCEPT
              !.addchunks = <<10>>, !.addprefixes = <<10>>]

OneAddOneSub == [OneAdd EXCEPT
                    !.subchunks = <<5>>,
                    !.subprefixes = <<[prefix |-> 3, addchunk |-> 10, subchunk |-> 5]>>]

\* a store of one add prefix whose second slice decompresses to two bytes
StoreBadSlice ==
    StoreHeader(1, 0, 1, 0, 0, 0) \o Bytes32(10)
    \o SliceBlock(<<0>>) \o SliceBlock(<<0, 0>>) \o SliceBlock(<<0>>) \o <<10>>
    \o ByteSliced(<<>>) \o ByteSliced(<<>>) \o ByteSliced(<<>>) \o Fill(Md5Size, 7)

\* the files of one list: sound ones, then a store with a byte after its
\* checksum, one with a short checksum, one with slices of two lengths, and a
\* prefix set of two prefixes beside a store of one add prefix
NewFiles ==
    { [sbstore |-> StoreBody(OneAdd) \o Fill(Md5Size, 7),
       pset |-> PsetFile(<<1>>, <<0>>, <<>>)],
      [sbstore |-> StoreBody(OneAdd) \o Fill(Md5Size, 7),
       pset |-> PsetFile(<<2>>, <<0>>, <<>>)],
      [sbstore |-> StoreBody(EmptyContent) \o Fill(Md5Size, 7),
       pset |-> PsetFile(<<0>>, <<0>>, <<>>)],
      [sbstore |-> StoreBody(OneAddOneSub) \o Fill(Md5Size, 7),
       pset |-> PsetFile(<<1>>, <<0>>, <<>>)],
      [sbstore |-> StoreBody(OneAdd) \o Fill(Md5Size + 1, 7),
       pset |-> PsetFile(<<1>>, <<0>>, <<>>)],
      [sbstore |-> StoreBody(OneAdd) \o Fill(Md5Size - 1, 7),
       pset |-> PsetFile(<<1>>, <<0>>, <<>>)],
      [sbstore |-> StoreBadSlice,
       pset |-> PsetFile(<<1>>, <<0>>, <<>>)],
      [sbstore |-> StoreBody(OneAdd) \o Fill(Md5Size, 7),
       pset |-> PsetFile(<<1>>, <<0>>, <<1>>)] }

\* the rows of one table: the prefix in partial_data, or in domain
OldTables ==
    { [adds |-> <<[domain |-> Bytes32(9), partial_data |-> Bytes32(1), chunk_id |-> 10]>>,
       subs |-> <<>>],
      [adds |-> <<[domain |-> Bytes32(2), partial_data |-> <<>>, chunk_id |-> 10]>>,
       subs |-> <<>>],
      [adds |-> <<>>, subs |-> <<>>],
      [adds |-> <<[domain |-> Bytes32(9), partial_data |-> Bytes32(1), chunk_id |-> 10]>>,
       subs |-> <<[domain |-> Bytes32(9), partial_data |-> Bytes32(3), chunk_id |-> 5,
                   add_chunk_id |-> 10]>>] }

Init ==
    /\ arg = [op |-> "main"]
    /\ ret = NoCall
    /\ \E new_dir \in UNION { [D -> NewFiles] : D \in SUBSET ListNames },
          old_dir \in UNION { [D -> OldTables] : D \in SUBSET ListNames } :
          MainStart(new_dir, old_dir)

Spec == Init /\ [][Next]_vars

(***************************************************************************)
(* The claims.                                                             *)
(***************************************************************************)
Called == ret.st # "none"

\* ---- read_bytesliced -----------------------------------------------------
\* the bytes of the raw slice that read_raw can get
RawLen == Min(arg.lens[4], arg.count)

AllCount ==
    arg.lens[1] = arg.count /\ arg.lens[2] = arg.count /\ arg.lens[3] = arg.count

\* the values the slices of SlicedArgs stand for
SlicedValues == [i \in 1..arg.count |-> 16909060 + 10 * (i - 1) * 16843009]

\* C6 as stated: read_bytesliced returns count values if and only if the three
\* decompressed slices and the raw slice all have length count, and a slice of
\* any other length is a "Slices inconsistent" exit that prints the four lengths
C6_AnyLengthReported ==
    Called =>
        /\ (ret.st = "ok" /\ Len(ret.val) = arg.count) <=> (AllCount /\ RawLen = arg.count)
        /\ ~(AllCount /\ RawLen = arg.count) =>
              /\ ret.st = "exit"
              /\ ret.out = <<arg.lens[1], arg.lens[2], arg.lens[3], RawLen>>

\* C6 amended: with count raw bytes to read, read_bytesliced returns the count
\* reassembled values if the three decompressed slices have length count, and
\* else exits printing the four lengths; with fewer raw bytes the read of the
\* raw slice raises struct.error and no lengths are printed; it never returns
\* an array of another length than count
C6_SliceLengths ==
    Called =>
        /\ (arg.lens[4] >= arg.count /\ AllCount) =>
              ret.st = "ok" /\ ret.val = SlicedValues
        /\ (arg.lens[4] >= arg.count /\ ~AllCount) =>
              /\ ret.st = "exit"
              /\ ret.msg = <<"Slices inconsistent">>
              /\ ret.out = <<arg.lens[1], arg.lens[2], arg.lens[3], arg.count>>
              /\ ret.val = <<>>
        /\ arg.lens[4] < arg.count =>
              ret.st = "raise" /\ ret.exc = "struct.error" /\ ret.out = <<>>
        /\ ret.st = "ok" => Len(ret.val) = arg.count

C6_Witness ==
    /\ Called /\ arg.op = "read_bytesliced"
    /\ arg.count = 2 /\ arg.lens = <<2, 1, 2, 2>>
    /\ ret.st = "exit" /\ ret.out = <<2, 1, 2, 2>>

\* ---- read_sbstore --------------------------------------------------------
\* C5: read_sbstore returns a list only if exactly 16 bytes follow the sections
\* the header declares; k >= 1 bytes more and it exits printing k bytes
\* remaining; fewer than 16 and it exits printing "Checksum truncated"
C5_StrictEof ==
    (Called /\ arg.layout = "sections") =>
        /\ ret.st = "ok" => Len(arg.fp) = arg.sections_end + 16
        /\ Len(arg.fp) > arg.sections_end + 16 =>
              /\ ret.st = "exit"
              /\ ret.out = <<Len(arg.fp) - arg.sections_end - 16>>
              /\ ret.msg = <<"File doesn't end where expected: bytes remaining">>
              /\ ret.val = <<>>
        /\ Len(arg.fp) < arg.sections_end + 16 =>
              /\ ret.st = "exit"
              /\ ret.msg[1] = "Checksum truncated"
              /\ ret.val = <<>>

C5_Witness ==
    /\ Called /\ arg.op = "read_sbstore" /\ arg.layout = "sections"
    /\ Len(arg.content.addprefixes) = 1
    /\ Len(arg.fp) = arg.sections_end + 18
    /\ ret.st = "exit" /\ ret.out = <<2>>

\* C4 as stated: the header of an empty store, then 16 bytes of checksum and
\* nothing else, is decoded into an empty list
C4_HeaderThenChecksum ==
    (Called /\ arg.layout = "header only" /\ Len(arg.fp) = HeaderSize + 16) =>
        ret.st = "ok" /\ ret.val = <<SBData>>

\* C4 amended: the header of an empty store, then the four byte sliced arrays
\* of no values (three compressed slices of no bytes each), then 16 bytes of
\* checksum and nothing else, is decoded into an empty list; with the checksum
\* right after the header the decode raises and returns no list
C4_EmptyStore ==
    (Called /\ arg.content = EmptyContent) =>
        /\ (arg.layout = "sections" /\ Len(arg.fp) = arg.sections_end + 16) =>
              ret.st = "ok" /\ ret.val = <<SBData>>
        /\ arg.layout = "header only" =>
              ret.st = "raise" /\ ret.val = <<>>

C4_Witness ==
    /\ Called /\ arg.op = "read_sbstore" /\ arg.layout = "sections"
    /\ arg.content = EmptyContent
    /\ Len(arg.fp) = HeaderSize + 4 * 3 * 15 + 16
    /\ ret.st = "ok" /\ ret.val = <<SBData>>

\* ---- read_pset -----------------------------------------------------------
RECURSIVE Sum(_, _, _)
Sum(seq, from, to) == IF from > to THEN 0 ELSE seq[from] + Sum(seq, from + 1, to)

\* the deltas of index i (1-based) as the slice deltas[start : end]: their first
\* position (0-based) and their number
SliceStart(i) == arg.index_starts[i]

SliceLen(i) ==
    LET end == IF i < Len(arg.index_starts) THEN arg.index_starts[i + 1]
               ELSE Len(arg.index_deltas)
        stop == Min(end, Len(arg.index_deltas))
    IN  IF stop > SliceStart(i) THEN stop - SliceStart(i) ELSE 0

\* what index i emits: its prefix, then the running sums of its deltas
Emitted(i) ==
    [k \in 1..(1 + SliceLen(i)) |->
        arg.index_prefixes[i]
        + Sum(arg.index_deltas, SliceStart(i) + 1, SliceStart(i) + k - 1)]

EmittedAll == Concat([i \in 1..Len(arg.index_prefixes) |-> Emitted(i)])

ClaimedPrefixes ==
    IF EmittedAll # <<>> /\ EmittedAll[1] = 0 THEN <<>> ELSE EmittedAll

\* every index's deltas lie within the list
DeltasInRange ==
    \A i \in 1..Len(arg.index_starts) :
        LET end == IF i < Len(arg.index_starts) THEN arg.index_starts[i + 1]
                   ELSE Len(arg.index_deltas)
        IN  arg.index_starts[i] >= end \/ end <= Len(arg.index_deltas)

\* C7 as stated: for every input the decoder's result is the emitted sequence,
\* or the empty sequence when that one starts with 0
C7_EveryInput ==
    Called => ret.st = "ok" /\ ret.val = ClaimedPrefixes

\* C7 amended: the same for every input whose index starts leave each index's
\* deltas within the list of deltas; for any other input the decoder raises
\* IndexError and has no result
C7_InRange ==
    Called =>
        /\ DeltasInRange => ret.st = "ok" /\ ret.val = ClaimedPrefixes
        /\ ~DeltasInRange => ret.st = "raise" /\ ret.exc = "IndexError" /\ ret.val = <<>>

C7_Witness ==
    /\ Called /\ arg.op = "read_pset"
    /\ arg.index_prefixes = <<5>> /\ arg.index_starts = <<0>>
    /\ arg.index_deltas = <<3, 2>>
    /\ ret.st = "ok" /\ ret.val = <<5, 8, 10>>

\* ---- fill_addprefixes ----------------------------------------------------
\* C8: with as many prefixes as add prefix records, record i gets prefixes[i]
\* and keeps its add chunk; with another number the call fails and every record
\* keeps the prefix it had
C8_Fill ==
    Called =>
        /\ Len(arg.prefixes) # Len(arg.data.addprefixes) =>
              /\ ret.st = "raise" /\ ret.exc = "AssertionError"
              /\ ret.val[1].addprefixes = arg.data.addprefixes
        /\ Len(arg.prefixes) = Len(arg.data.addprefixes) =>
              /\ ret.st = "ok"
              /\ Len(ret.val[1].addprefixes) = Len(arg.prefixes)
              /\ \A i \in 1..Len(arg.prefixes) :
                    /\ ret.val[1].addprefixes[i].prefix = arg.prefixes[i]
                    /\ ret.val[1].addprefixes[i].addchunk = arg.data.addprefixes[i].addchunk
                    /\ ret.val[1].addprefixes[i].id = arg.data.addprefixes[i].id

C8_Witness ==
    /\ Called /\ arg.op = "fill_addprefixes"
    /\ Len(arg.data.addprefixes) = 3 /\ Len(arg.prefixes) = 2
    /\ ret.st = "raise" /\ ret.exc = "AssertionError"

\* ---- compare_table -------------------------------------------------------
\* a record's value
ValueKey(h) == <<h.prefix, h.addchunk, h.subchunk>>

ValueSet(list) == { ValueKey(list[i]) : i \in 1..Len(list) }

AddMismatchesByValue ==
    Cardinality(SymmetricDifference(ValueSet(arg.old_table.addprefixes),
                                    ValueSet(arg.new_table.addprefixes)))

SubMismatchesByValue ==
    Cardinality(SymmetricDifference(ValueSet(arg.old_table.subprefixes),
                                    ValueSet(arg.new_table.subprefixes)))

\* C1: the add mismatches compare_table prints are the (prefix, add chunk) pairs
\* in exactly one of the two lists, the sub mismatches likewise, and two lists
\* of equal records are reported consistent
C1_KeyedByValue ==
    Called =>
        /\ ret.add_mismatches = AddMismatchesByValue
        /\ ret.sub_mismatches = SubMismatchesByValue
        /\ (AddMismatchesByValue + SubMismatchesByValue = 0 /\ ret.st = "ok") =>
              ~ret.failed

\* C3: on a legacy list of no add and no sub prefixes compare_table ends
\* without error, with 100% correct, and reports an empty new list consistent
C3_EmptyLegacy ==
    (Called /\ Len(arg.old_table.addprefixes) + Len(arg.old_table.subprefixes) = 0) =>
        /\ ret.st = "ok"
        /\ ret.correct = 100
        /\ (Len(arg.new_table.addprefixes) + Len(arg.new_table.subprefixes) = 0) =>
              ~ret.failed

\* ---- main ------------------------------------------------------------------
\* compare_all_the_things was entered: both profiles were parsed
Comparing == pc = "compare" \/ (pc = "exited" /\ died.at \in {"", "compare"})

\* a table of the old profile that the new profile lacks
MissingTables == DOMAIN old_lists \ DOMAIN new_lists

\* the records of a table differ, by value, from those of the new list
Inconsistent(table) ==
    \/ ValueSet(old_lists[table].addprefixes) # ValueSet(new_lists[table].addprefixes)
    \/ ValueSet(old_lists[table].subprefixes) # ValueSet(new_lists[table].subprefixes)

\* C2: when a table of the old profile is missing from the new one, nothing is
\* raised, every other table is compared, and the result is failure
C2_MissingListReported ==
    (pc = "exited" /\ Comparing /\ MissingTables # {} /\ died.exc # "ZeroDivisionError") =>
        /\ died = NotDied
        /\ \A table \in DOMAIN old_lists \ MissingTables : table \in DOMAIN compared
        /\ failure
        /\ exit_code = 1

\* the process ended on a format error in the files of the list sb_name
FormatErrorExit ==
    /\ pc = "exited"
    /\ \/ died.at = "parse_new" /\ died.st = "exit"
       \/ died.at = "fill" /\ died.exc = "AssertionError"

\* C9: a format error in one list's files leaves every other list of the
\* directory decoded and compared, and the process reports failure
C9_OtherListsProcessed ==
    FormatErrorExit =>
        /\ \A name \in DOMAIN new_profile_dir \ {sb_name} :
              /\ name \in DOMAIN new_lists
              /\ name \in DOMAIN old_profile_dir => name \in DOMAIN compared
        /\ exit_code = 1

\* C10: the process exits non-zero if and only if a table of the old profile
\* is missing from the new one or differs from it, and else exits with zero
C10_ExitCode ==
    (pc = "exited" /\ Comparing) =>
        /\ exit_code \in {0, 1}
        /\ exit_code = 1 <=>
              \E table \in DOMAIN old_lists :
                  table \in MissingTables \/ Inconsistent(table)
        /\ failure <=> exit_code = 1

====
